---- MODULE Spec2Model ----
(***************************************************************************)
(* DiNetX: multi-hop accessibility (accessibility.py) and h-degree         *)
(* (h_degree.py) over a NetworkX 1.x graph.                                *)
(*                                                                         *)
(* One behaviour is one call of one public function on one graph.  The     *)
(* graph is read-only input drawn in Init.  The steps of a call are: the   *)
(* directedness check, the start of one node (which builds the node's      *)
(* frontier table by the recursive helper), the scoring of one hop, and    *)
(* the return.                                                             *)
(*                                                                         *)
(* Edge weights are rationals counted in halves: the stored number w       *)
(* stands for the Python value w/2, so 1 is 0.5 and 2 is 1.  An edge       *)
(* without a weight attribute stores NoWeight.                             *)
(*                                                                         *)
(* Real numbers are kept exact: a probability is a reduced fraction        *)
(* <<num, den>>, and the entropy sum acc is the bag of the probabilities   *)
(* whose term -p*log(p) is not zero, so that exp(acc) = 1 exactly when     *)
(* the bag is empty and equal bags give equal scores.                      *)
(***************************************************************************)
EXTENDS Integers, FiniteSets, Sequences, Bags, TLC

\* ------------------------------------------------------------------ bounds
\* Largest h a call is made with.
MaxH == 2
\* Largest number of edges of a graph.
MaxEdges == 3
\* Largest integer edge weight of the graphs given to the h-degree functions.
MaxWeight == 2

\* ------------------------------------------------------------------ values
None == "None"
\* What w.get('weight') gives for an edge without a weight attribute.
NoWeight == -1

\* A node is a Python value: its type and its text.  The int 1 and the
\* string '1' are two nodes.
NodeUniverse == {<<"int", "1">>, <<"str", "1">>, <<"int", "2">>}

\* Weights of the graphs given to the accessibility functions: missing,
\* 0.5 and 1 (in halves).
AccWeights == {NoWeight, 1, 2}

\* Weights of the graphs given to the h-degree functions: 0..MaxWeight.
HWeights == {2 * k : k \in 0..MaxWeight}

AccFunctions == {"accessibility", "in_accessibility", "out_accessibility"}
HFunctions == {"h_degree", "in_h_degree", "out_h_degree"}

\* ------------------------------------------------------------------ graph
\* A graph is [directed, nodes, adj]: adj maps each stored pair <<u, v>> to
\* the edge's weight.  An undirected graph stores both <<u, v>> and <<v, u>>
\* with the same weight, as NetworkX's adjacency dictionary does.
OrderedPairs(ns) == {e \in ns \X ns : e[1] # e[2]}
UnorderedPairs(ns) == {s \in SUBSET ns : Cardinality(s) = 2}

DiGraphs(ns, W) ==
    UNION {{[directed |-> TRUE, nodes |-> ns, adj |-> w] : w \in [E -> W]} :
            E \in {X \in SUBSET OrderedPairs(ns) : Cardinality(X) <= MaxEdges}}

Graphs(ns, W) ==
    UNION {{[directed |-> FALSE, nodes |-> ns,
             adj |-> [e \in {p \in OrderedPairs(ns) : {p[1], p[2]} \in E}
                        |-> w[{e[1], e[2]}]]] : w \in [E -> W]} :
            E \in {X \in SUBSET UnorderedPairs(ns) : Cardinality(X) <= MaxEdges}}

AllGraphs(W) ==
    UNION {DiGraphs(ns, W) \cup Graphs(ns, W) : ns \in SUBSET NodeUniverse \ {{}}}

is_directed(G) == G.directed
has_edge(G, u, v) == <<u, v>> \in DOMAIN G.adj
\* graph.get_edge_data(u, v).get('weight')
get_weight(G, u, v) == G.adj[<<u, v>>]
out_edges(G, n) == {e \in DOMAIN G.adj : e[1] = n}
in_edges(G, n) == {e \in DOMAIN G.adj : e[2] = n}
\* Graph.edges(n) lists each edge of n as (n, neighbour); DiGraph.edges is
\* DiGraph.out_edges.
edges(G, n) == out_edges(G, n)

\* to_undirected() returns a new graph and leaves the receiver unchanged.
to_undirected(G) ==
    [directed |-> FALSE, nodes |-> G.nodes,
     adj |-> [e \in DOMAIN G.adj \cup {<<p[2], p[1]>> : p \in DOMAIN G.adj}
                |-> IF e \in DOMAIN G.adj THEN G.adj[e] ELSE G.adj[<<e[2], e[1]>>]]]

\* ------------------------------------------------------------------ state
VARIABLES
    graph,              \* the graph argument
    fn,                 \* the public function called
    weighted,           \* the weighted argument
    h,                  \* the h argument
    pc,                 \* "call", "loop", "expand", "hop", "done", "raised"
    raised,             \* the exception that ended the call, or None
    visited,            \* the nodes the node loop has started
    node,               \* the loop's current node, or None
    neighbors,          \* the current node's frontier table
    j,                  \* the last hop scored for the current node
    weights,            \* the local weights of the last hop scored
    acc,                \* the local acc of the last hop scored
    accessibility_dict, \* the accessibility functions' result so far
    h_degree_dict,      \* the h-degree functions' result so far
    returned,           \* the mapping returned to the caller, or None
    arg_neighbors,      \* the helper's current invocation: its neighbors argument
    arg_num_levels,     \* the helper's current invocation: its num_levels argument
    arg_i               \* the helper's current invocation: its i argument

\* The arguments of the frontier helper's current invocation.  They are
\* followed call by call in SpecRec only; Spec runs the helper in one step.
rec == <<arg_neighbors, arg_num_levels, arg_i>>

vars == <<graph, fn, weighted, h, pc, raised, visited, node, neighbors, j,
          weights, acc, accessibility_dict, h_degree_dict, returned, rec>>

EmptyDict == [k \in {} |-> 0]

Init ==
    /\ fn \in AccFunctions \cup HFunctions
    /\ weighted \in (IF fn \in AccFunctions THEN BOOLEAN ELSE {FALSE})
    /\ h \in (IF fn \in AccFunctions THEN 1..MaxH ELSE {1})
    \* An unweighted call never reads a weight: it is given the graphs without
    \* weight attributes.
    /\ graph \in (IF fn \in HFunctions THEN AllGraphs(HWeights)
                  ELSE IF weighted THEN AllGraphs(AccWeights)
                  ELSE AllGraphs({NoWeight}))
    /\ pc = "call"
    /\ raised = None
    /\ visited = {}
    /\ node = None
    /\ neighbors = EmptyDict
    /\ j = 0
    /\ weights = 0
    /\ acc = EmptyBag
    /\ accessibility_dict = EmptyDict
    /\ h_degree_dict = EmptyDict
    /\ returned = None
    /\ arg_neighbors = {}
    /\ arg_num_levels = 0
    /\ arg_i = 0


\* ------------------------------------------------------------------ helpers
\* d[k] = v on a dictionary.
Put(d, k, v) == [x \in DOMAIN d \cup {k} |-> IF x = k THEN v ELSE d[x]]

\* str(node): the text of the node, whatever its type.
str(n) == n[2]

\* The result key str(node) + '_h_' + str(j).
Key(n, hop) == str(n) \o "_h_" \o ToString(hop)

\* int(w) of a weight in halves: truncation.  float(w) keeps w (in halves).
int(w) == w \div 2
float(w) == w

RECURSIVE SumOver(_, _)
\* sum([f[x] for x in S])
SumOver(S, f) ==
    IF S = {} THEN 0
    ELSE LET x == CHOOSE y \in S : TRUE IN f[x] + SumOver(S \ {x}, f)

RECURSIVE Gcd(_, _)
Gcd(a, b) == IF b = 0 THEN a ELSE Gcd(b, a % b)

\* The real number num/den, den > 0, as a reduced fraction.
Fraction(num, den) ==
    LET g == Gcd(num, den) IN <<num \div g, den \div g>>

Zero == <<0, 1>>
One == <<1, 1>>

\* ------------------------------------------------------------------ frontier builder
RECURSIVE _neighbors(_, _, _, _, _)
\* accessibility's helper: expands from the second element of every pair
\* with graph.edges.
_neighbors(G, nbrs, neighbour_dict, num_levels, i) ==
    IF num_levels = 0 THEN neighbour_dict
    ELSE LET tmp == UNION {edges(G, e[2]) : e \in nbrs}
         IN _neighbors(G, tmp, Put(neighbour_dict, i, tmp), num_levels - 1, i + 1)

RECURSIVE _neighbors_out(_, _, _, _, _)
\* out_accessibility's helper: expands from the second element with
\* graph.out_edges.
_neighbors_out(G, nbrs, neighbour_dict, num_levels, i) ==
    IF num_levels = 0 THEN neighbour_dict
    ELSE LET tmp == UNION {out_edges(G, e[2]) : e \in nbrs}
         IN _neighbors_out(G, tmp, Put(neighbour_dict, i, tmp), num_levels - 1, i + 1)

RECURSIVE _neighbors_in_from_target(_, _, _, _, _)
\* Mutant: in_accessibility's helper expanding from the second element.
_neighbors_in_from_target(G, nbrs, neighbour_dict, num_levels, i) ==
    IF num_levels = 0 THEN neighbour_dict
    ELSE LET tmp == UNION {in_edges(G, e[2]) : e \in nbrs}
         IN _neighbors_in_from_target(G, tmp, Put(neighbour_dict, i, tmp),
                                      num_levels - 1, i + 1)

RECURSIVE _neighbors_in(_, _, _, _, _)
\* in_accessibility's helper: expands from the first element with
\* graph.in_edges.
_neighbors_in(G, nbrs, neighbour_dict, num_levels, i) ==
    IF num_levels = 0 THEN neighbour_dict
    ELSE LET tmp == UNION {in_edges(G, e[1]) : e \in nbrs}
         IN _neighbors_in(G, tmp, Put(neighbour_dict, i, tmp), num_levels - 1, i + 1)

\* The hop-1 edge list of a node: graph.edges, graph.in_edges or
\* graph.out_edges.
FirstFrontier(G, f, n) ==
    CASE f = "accessibility" -> edges(G, n)
      [] f = "in_accessibility" -> in_edges(G, n)
      [] f = "out_accessibility" -> out_edges(G, n)

\* The frontier table of a node: neighbors[1] and the helper's levels 2..h.
BuildNeighbors(G, f, n, hh) ==
    LET successors == FirstFrontier(G, f, n)
        first == Put(EmptyDict, 1, successors)
    IN CASE f = "accessibility" -> _neighbors(G, successors, first, hh - 1, 2)
         [] f = "in_accessibility" -> _neighbors_in(G, successors, first, hh - 1, 2)
         [] f = "out_accessibility" -> _neighbors_out(G, successors, first, hh - 1, 2)

\* ------------------------------------------------------------------ entropy scorer
\* Mutant: the weighted sum leaves out one edge of the frontier.
TotalSkipsOne(G, w, F) ==
    IF w THEN (IF F = {} THEN 0
               ELSE LET F1 == F \ {CHOOSE e \in F : TRUE}
                    IN SumOver(F1, [e \in F1 |-> int(G.adj[e])]))
    ELSE Cardinality(F)

\* The local weights: the sum of int(weight) over the frontier, or its length.
Total(G, w, F) ==
    IF w THEN SumOver(F, [e \in F |-> int(get_weight(G, e[1], e[2]))])
    ELSE Cardinality(F)

\* The nodes of the outer loop (set(tmp2), or set(tmp1) in in_accessibility)
\* and of the inner loop.
Reached(f, F) == IF f = "in_accessibility" THEN {e[1] : e \in F} ELSE {e[2] : e \in F}
Origins(f, F) == IF f = "in_accessibility" THEN {e[2] : e \in F} ELSE {e[1] : e \in F}

\* Mutant: the inner loop without its has_edge test.
ConsultedNoTest(G, f, F, n) ==
    IF f = "in_accessibility"
    THEN {<<n, s>> : s \in Origins(f, F)}
    ELSE {<<s, n>> : s \in Origins(f, F)}

\* The graph edges the inner loop finds for n with has_edge.
Consulted(G, f, F, n) ==
    IF f = "in_accessibility"
    THEN {<<n, s>> : s \in {t \in Origins(f, F) : has_edge(G, n, t)}}
    ELSE {<<s, n>> : s \in {t \in Origins(f, F) : has_edge(G, t, n)}}

\* The local weight (in halves) or degree of n after the inner loop.
Mass(G, f, w, F, n) ==
    LET C == Consulted(G, f, F, n)
    IN IF w THEN SumOver(C, [e \in C |-> float(get_weight(G, e[1], e[2]))])
       ELSE Cardinality(C)

\* Mutant: degree/weights as Python 2's integer division.
P_ijIntegerDivision(G, f, w, F, n) ==
    IF w THEN Fraction(Mass(G, f, w, F, n), 2 * Total(G, w, F))
    ELSE Fraction(Mass(G, f, w, F, n) \div Total(G, w, F), 1)

\* p_ij = weight/weights or degree/weights, for weights # 0.
P_ij(G, f, w, F, n) ==
    IF w THEN Fraction(Mass(G, f, w, F, n), 2 * Total(G, w, F))
    ELSE Fraction(Mass(G, f, w, F, n), Total(G, w, F))

\* acc after the loop over the reached nodes: math.log(0) raises ValueError
\* and the node is skipped; p_ij = 1 adds zero.
Entropy(G, f, w, F) ==
    LET R == Reached(f, F)
        Ps == {P_ij(G, f, w, F, n) : n \in R} \ {Zero, One}
    IN [q \in Ps |-> Cardinality({n \in R : P_ij(G, f, w, F, n) = q})]

\* Mutant: the entropy stored without the exponential.
no_exp(a) == [log |-> a]

\* math.exp(acc).
math_exp(a) == [exp |-> a]

\* Mutant: a missing weight read with a default instead of raising.
HopErrorsDefaultWeight(G, f, w, F) ==
    {"ZeroDivisionError" :
        n \in {m \in Reached(f, F) :
                 (IF w THEN SumOver(F, [e \in F |-> int(G.adj[e])])
                       ELSE Cardinality(F)) = 0}}

\* The exceptions the scoring of one hop can end in (none: the hop is scored).
\* int(None) and float(None) raise TypeError; weight/0 raises
\* ZeroDivisionError.  The reached nodes are visited in any order.
HopErrors(G, f, w, F) ==
    IF w /\ \E e \in F : G.adj[e] = NoWeight THEN {"TypeError"}
    ELSE {IF w /\ \E e \in Consulted(G, f, F, n) : G.adj[e] = NoWeight
          THEN "TypeError" ELSE "ZeroDivisionError" :
            n \in {m \in Reached(f, F) :
                     \/ w /\ \E e \in Consulted(G, f, F, m) : G.adj[e] = NoWeight
                     \/ Total(G, w, F) = 0}}

\* ------------------------------------------------------------------ h-degree
RECURSIVE FindLoop(_, _, _)
\* The while loop of _find_h_degree from the state (i, best_h_degree).
FindLoop(ws, i, best_h_degree) ==
    LET tmp == Cardinality({e \in DOMAIN ws : ws[e] >= 2 * i})
    IN IF i < tmp THEN FindLoop(ws, i + 1, i)
       ELSE IF i = tmp THEN FindLoop(ws, i + 1, tmp)
       ELSE best_h_degree

_find_h_degree(ws) == FindLoop(ws, 1, 1)

\* The weight list of a node, one entry per listed edge.
NodeWeights(G, f, n) ==
    LET E == CASE f = "h_degree" -> edges(G, n)
               [] f = "in_h_degree" -> in_edges(G, n)
               [] f = "out_h_degree" -> out_edges(G, n)
    IN [e \in E |-> G.adj[e]]

\* ------------------------------------------------------------------ actions
\* Mutant: out_accessibility without its directedness check.
NeedsDirectedInOnly == {"in_accessibility", "in_h_degree", "out_h_degree"}

NeedsDirected == {"in_accessibility", "out_accessibility", "in_h_degree", "out_h_degree"}

\* if not graph.is_directed(): raise nx.NetworkXError(...)
RaiseUndirected ==
    /\ pc = "call"
    /\ fn \in NeedsDirected
    /\ ~is_directed(graph)
    /\ pc' = "raised"
    /\ raised' = "NetworkXError"
    /\ UNCHANGED rec
    /\ UNCHANGED <<graph, fn, weighted, h, visited, node, neighbors, j, weights,
                   acc, accessibility_dict, h_degree_dict, returned>>

\* The check passes (accessibility: graph.to_undirected() builds a copy that
\* is dropped) and the result dictionary is created.
Enter ==
    /\ pc = "call"
    /\ fn \in NeedsDirected => is_directed(graph)
    /\ pc' = "loop"
    /\ graph' = IF fn = "accessibility" /\ is_directed(graph)
                THEN (LET copy == to_undirected(graph) IN graph)
                ELSE graph
    /\ accessibility_dict' = EmptyDict
    /\ h_degree_dict' = EmptyDict
    /\ UNCHANGED rec
    /\ UNCHANGED <<fn, weighted, h, raised, visited, node, neighbors, j, weights,
                   acc, returned>>

AtLoopTop == pc = "loop" \/ (pc = "hop" /\ j = h)

\* for node in graph.nodes_iter(): the frontier table of the next node.
StartNode ==
    /\ fn \in AccFunctions
    /\ AtLoopTop
    /\ \E n \in graph.nodes \ visited :
        /\ node' = n
        /\ visited' = visited \cup {n}
        /\ neighbors' = BuildNeighbors(graph, fn, n, h)
    /\ j' = 0
    /\ pc' = "hop"
    /\ UNCHANGED rec
    /\ UNCHANGED <<graph, fn, weighted, h, raised, weights, acc,
                   accessibility_dict, h_degree_dict, returned>>

\* One pass of "for j in range(1, h+1)" that ends in the dictionary store.
ScoreHop ==
    /\ pc = "hop"
    /\ j < h
    /\ HopErrors(graph, fn, weighted, neighbors[j + 1]) = {}
    /\ j' = j + 1
    /\ weights' = Total(graph, weighted, neighbors[j + 1])
    /\ acc' = Entropy(graph, fn, weighted, neighbors[j + 1])
    /\ accessibility_dict' = Put(accessibility_dict, Key(node, j + 1), math_exp(acc'))
    /\ UNCHANGED rec
    /\ UNCHANGED <<graph, fn, weighted, h, pc, raised, visited, node, neighbors,
                   h_degree_dict, returned>>

\* One pass of the hop loop that ends in an exception.
ScoreHopRaises ==
    /\ pc = "hop"
    /\ j < h
    /\ \E err \in HopErrors(graph, fn, weighted, neighbors[j + 1]) :
        raised' = err
    /\ pc' = "raised"
    /\ UNCHANGED rec
    /\ UNCHANGED <<graph, fn, weighted, h, visited, node, neighbors, j, weights,
                   acc, accessibility_dict, h_degree_dict, returned>>

\* return accessibility_dict
Return ==
    /\ fn \in AccFunctions
    /\ AtLoopTop
    /\ visited = graph.nodes
    /\ pc' = "done"
    /\ returned' = accessibility_dict
    /\ UNCHANGED rec
    /\ UNCHANGED <<graph, fn, weighted, h, raised, visited, node, neighbors, j,
                   weights, acc, accessibility_dict, h_degree_dict>>

\* One pass of the node loop of h_degree, in_h_degree or out_h_degree.
HDegreeNode ==
    /\ fn \in HFunctions
    /\ pc = "loop"
    /\ \E n \in graph.nodes \ visited :
        /\ node' = n
        /\ visited' = visited \cup {n}
        /\ h_degree_dict' = Put(h_degree_dict, n, _find_h_degree(NodeWeights(graph, fn, n)))
    /\ UNCHANGED rec
    /\ UNCHANGED <<graph, fn, weighted, h, pc, raised, neighbors, j, weights, acc,
                   accessibility_dict, returned>>

\* return h_degree_dict
HReturn ==
    /\ fn \in HFunctions
    /\ pc = "loop"
    /\ visited = graph.nodes
    /\ pc' = "done"
    /\ returned' = h_degree_dict
    /\ UNCHANGED rec
    /\ UNCHANGED <<graph, fn, weighted, h, raised, visited, node, neighbors, j,
                   weights, acc, accessibility_dict, h_degree_dict>>

Next ==
    \/ RaiseUndirected
    \/ Enter
    \/ StartNode
    \/ ScoreHop
    \/ ScoreHopRaises
    \/ Return
    \/ HDegreeNode
    \/ HReturn

Spec == Init /\ [][Next]_vars

\* ------------------------------------------------------------------ the helper, call by call
\* The tmp of one invocation of the helper of f: the edges listed for every
\* pair of its neighbors argument.
Expand(G, f, nbrs) ==
    LET d == CASE f = "accessibility" -> _neighbors(G, nbrs, EmptyDict, 1, 1)
               [] f = "in_accessibility" -> _neighbors_in(G, nbrs, EmptyDict, 1, 1)
               [] f = "out_accessibility" -> _neighbors_out(G, nbrs, EmptyDict, 1, 1)
    IN d[1]

\* Mutant: the recursion stops one level early.
BaseCaseAtOne(num_levels) == num_levels <= 1

\* if num_levels == 0: return neighbour_dict
BaseCase(num_levels) == num_levels = 0

\* The next node of the loop: neighbors[1] is stored and the helper is
\* called with (successors, neighbors, h-1, i+1).
CallHelper ==
    /\ fn \in AccFunctions
    /\ AtLoopTop
    /\ \E n \in graph.nodes \ visited :
        /\ node' = n
        /\ visited' = visited \cup {n}
        /\ neighbors' = Put(EmptyDict, 1, FirstFrontier(graph, fn, n))
        /\ arg_neighbors' = FirstFrontier(graph, fn, n)
    /\ arg_num_levels' = h - 1
    /\ arg_i' = 2
    /\ j' = 0
    /\ pc' = "expand"
    /\ UNCHANGED <<graph, fn, weighted, h, raised, weights, acc,
                   accessibility_dict, h_degree_dict, returned>>

\* One invocation of the helper that is not the base case: it stores
\* neighbour_dict[i] and calls itself with (tmp, neighbour_dict,
\* num_levels-1, i+1).
HelperRecurse ==
    /\ pc = "expand"
    /\ ~BaseCase(arg_num_levels)
    /\ LET tmp == Expand(graph, fn, arg_neighbors)
       IN /\ neighbors' = Put(neighbors, arg_i, tmp)
          /\ arg_neighbors' = tmp
    /\ arg_num_levels' = arg_num_levels - 1
    /\ arg_i' = arg_i + 1
    /\ UNCHANGED <<graph, fn, weighted, h, pc, raised, visited, node, j, weights,
                   acc, accessibility_dict, h_degree_dict, returned>>

\* The base-case invocation returns, and with it every invocation above it:
\* the hop loop starts.
HelperReturn ==
    /\ pc = "expand"
    /\ BaseCase(arg_num_levels)
    /\ pc' = "hop"
    /\ UNCHANGED rec
    /\ UNCHANGED <<graph, fn, weighted, h, raised, visited, node, neighbors, j,
                   weights, acc, accessibility_dict, h_degree_dict, returned>>

InitRec == Init /\ fn \in AccFunctions

NextRec ==
    \/ RaiseUndirected
    \/ Enter
    \/ CallHelper
    \/ HelperRecurse
    \/ HelperReturn
    \/ ScoreHop
    \/ ScoreHopRaises
    \/ Return

\* The accessibility functions with the helper's recursion followed
\* invocation by invocation.
SpecRec == InitRec /\ [][NextRec]_vars

TypeOK ==
    /\ pc \in {"call", "loop", "expand", "hop", "done", "raised"}
    /\ raised \in {None, "NetworkXError", "TypeError", "ZeroDivisionError"}
    /\ visited \subseteq graph.nodes
    /\ j \in 0..h


\* ------------------------------------------------------------------ properties
\* The state right after hop j of the current node was scored and stored.
Scored == fn \in AccFunctions /\ pc = "hop" /\ j >= 1

\* The call ended in an exception of the hop loop, raised while scoring hop
\* j + 1 of the current node.
HopRaised == pc = "raised" /\ raised \in {"TypeError", "ZeroDivisionError"}

MissingWeight(F) == \E e \in F : graph.adj[e] = NoWeight

\* The score exp(0) = 1.
ScoreOne == [exp |-> EmptyBag]

\* The score of the uniform distribution over k nodes, k >= 1: k terms 1/k,
\* which is exp(ln k) = k.
ScoreUniform(k) == [exp |-> IF k = 1 THEN EmptyBag ELSE (<<1, k>> :> k)]

\* C1: in_accessibility and out_accessibility on an undirected graph, with any
\* weighted flag and any h, end in the error raised by the directedness check:
\* no node is visited, no frontier is built and no mapping is returned.
C1_UndirectedInOutRaises ==
    (fn \in {"in_accessibility", "out_accessibility"} /\ ~is_directed(graph)
        /\ pc # "call")
    => /\ pc = "raised"
       /\ raised = "NetworkXError"
       /\ visited = {}
       /\ node = None
       /\ neighbors = EmptyDict
       /\ DOMAIN accessibility_dict = {}

C1_Witness ==
    /\ fn = "out_accessibility"
    /\ ~is_directed(graph)
    /\ DOMAIN graph.adj # {}
    /\ weighted
    /\ h = MaxH
    /\ pc = "raised"

\* C2 (as claimed): accessibility on a directed graph builds, for every node,
\* the frontier table of the undirected version of the graph: hop 1 holds all
\* incident edges, incoming as well as outgoing, and every later hop expands
\* with the same operator.
C2_SymmetricOnDirected ==
    (fn = "accessibility" /\ pc = "hop")
    => neighbors = BuildNeighbors(to_undirected(graph), fn, node, h)

\* C3 (as claimed): a returned accessibility mapping has one entry for every
\* (node, hop) pair, |nodes| * h entries in all.
C3_OneEntryPerNodeAndHop ==
    (fn \in AccFunctions /\ pc = "done")
    => Cardinality(DOMAIN returned) = Cardinality(graph.nodes) * h

\* C4: a hop whose frontier is empty is scored without an error, and the score
\* stored under its key is exactly 1, for the three variants, weighted or not.
C4_EmptyFrontierScoresOne ==
    /\ (Scored /\ neighbors[j] = {})
        => /\ Key(node, j) \in DOMAIN accessibility_dict
           /\ accessibility_dict[Key(node, j)] = ScoreOne
    /\ HopRaised => neighbors[j + 1] # {}

C4_Witness ==
    /\ Scored
    /\ fn = "in_accessibility"
    /\ weighted
    /\ j = 2
    /\ neighbors[1] # {}
    /\ neighbors[2] = {}

\* C5 (as claimed): a hop whose normalising total is 0 is scored without an
\* error, also when its frontier is not empty.
C5_ZeroTotalScoresOne ==
    /\ (Scored /\ weights = 0)
        => accessibility_dict[Key(node, j)] = ScoreOne
    /\ HopRaised
        => ~(/\ ~(weighted /\ MissingWeight(neighbors[j + 1]))
             /\ Total(graph, weighted, neighbors[j + 1]) = 0)

\* C6: in weighted mode no hop whose frontier holds an edge without a weight is
\* ever scored, and a call on a graph with such a frontier (at any node, at any
\* hop up to h) never returns a mapping.
C6_MissingWeightRaises ==
    weighted =>
        /\ (pc \in {"hop", "raised"} /\ raised # "NetworkXError")
            => \A k \in 1..j : ~MissingWeight(neighbors[k])
        /\ (pc = "hop" /\ j < h /\ MissingWeight(neighbors[j + 1]))
            => HopErrors(graph, fn, weighted, neighbors[j + 1]) = {"TypeError"}
        /\ pc = "done"
            => \A n \in graph.nodes : \A k \in 1..h :
                  ~MissingWeight(BuildNeighbors(graph, fn, n, h)[k])

C6_Witness ==
    /\ weighted
    /\ pc = "raised"
    /\ raised = "TypeError"
    /\ j = 1
    /\ Cardinality(visited) = 2

\* C7: on a graph whose edge weights are all 1, the weighted call computes at
\* every hop the total, the mass of every reached node and the score of the
\* unweighted call, and raises nothing in the hop loop.
AllWeightsOne == \A e \in DOMAIN graph.adj : graph.adj[e] = 2

C7_UnitWeightsAsUnweighted ==
    (weighted /\ AllWeightsOne)
    => /\ ~HopRaised
       /\ Scored
           => /\ weights = Total(graph, FALSE, neighbors[j])
              /\ \A n \in Reached(fn, neighbors[j]) :
                    Mass(graph, fn, TRUE, neighbors[j], n)
                        = 2 * Mass(graph, fn, FALSE, neighbors[j], n)
              /\ acc = Entropy(graph, fn, FALSE, neighbors[j])
              /\ accessibility_dict[Key(node, j)]
                    = math_exp(Entropy(graph, fn, FALSE, neighbors[j]))

C7_Witness ==
    /\ weighted
    /\ AllWeightsOne
    /\ Scored
    /\ j = 2
    /\ Cardinality(neighbors[2]) >= 2
    /\ acc # EmptyBag

\* C8: in unweighted mode, a hop-1 frontier of k >= 1 edges gives total k,
\* k reached nodes of probability 1/k each, and the score k.
C8_HopOneUniform ==
    (Scored /\ ~weighted /\ j = 1 /\ neighbors[1] # {})
    => LET k == Cardinality(neighbors[1])
       IN /\ weights = k
          /\ Cardinality(Reached(fn, neighbors[1])) = k
          /\ \A n \in Reached(fn, neighbors[1]) :
                P_ij(graph, fn, weighted, neighbors[1], n) = <<1, k>>
          /\ accessibility_dict[Key(node, 1)] = ScoreUniform(k)

C8_Witness ==
    /\ Scored
    /\ ~weighted
    /\ j = 1
    /\ Cardinality(neighbors[1]) = 2

\* C9 (as claimed): the h-degree stored for a node is the largest n such that
\* the node has at least n edges of weight >= n.
HasEdgesOfWeight(ws, n) == Cardinality({e \in DOMAIN ws : ws[e] >= 2 * n}) >= n

C9_HDegreeIsLargest ==
    \A n \in DOMAIN h_degree_dict :
        LET ws == NodeWeights(graph, fn, n)
            v == h_degree_dict[n]
        IN /\ HasEdgesOfWeight(ws, v)
           /\ \A m \in (v + 1)..(Cardinality(DOMAIN ws) + 1) : ~HasEdgesOfWeight(ws, m)

\* C10: for out_accessibility and in_accessibility, F1 is the node's outgoing
\* (incoming) edges, F(k+1) is the union over the edges (u, v) of Fk of the
\* outgoing edges of v (the incoming edges of u), and Fk is the set of last
\* (first) edges of the directed walks of k edges from (to) the node.
Walks(G, k) ==
    {s \in [1..(k + 1) -> G.nodes] : \A i \in 1..k : <<s[i], s[i + 1]>> \in DOMAIN G.adj}
LastEdgesFrom(G, n, k) == {<<s[k], s[k + 1]>> : s \in {t \in Walks(G, k) : t[1] = n}}
FirstEdgesTo(G, n, k) == {<<s[1], s[2]>> : s \in {t \in Walks(G, k) : t[k + 1] = n}}

C10_DirectedFrontiers ==
    /\ (fn = "out_accessibility" /\ pc = "hop")
        => /\ DOMAIN neighbors = 1..h
           /\ neighbors[1] = {e \in DOMAIN graph.adj : e[1] = node}
           /\ \A k \in 1..(h - 1) :
                neighbors[k + 1] = {e \in DOMAIN graph.adj :
                                      \E d \in neighbors[k] : e[1] = d[2]}
           /\ \A k \in 1..h : neighbors[k] = LastEdgesFrom(graph, node, k)
    /\ (fn = "in_accessibility" /\ pc = "hop")
        => /\ DOMAIN neighbors = 1..h
           /\ neighbors[1] = {e \in DOMAIN graph.adj : e[2] = node}
           /\ \A k \in 1..(h - 1) :
                neighbors[k + 1] = {e \in DOMAIN graph.adj :
                                      \E d \in neighbors[k] : e[2] = d[1]}
           /\ \A k \in 1..h : neighbors[k] = FirstEdgesTo(graph, node, k)

C10_Witness ==
    /\ fn = "in_accessibility"
    /\ pc = "hop"
    /\ h >= 2
    /\ neighbors[2] # {}
    /\ neighbors[2] # neighbors[1]
    /\ Cardinality(neighbors[1]) = 2


\* C11: for every graph, node, direction and h >= 1 the helper is invoked with
\* num_levels = h-1, h-2, .., 0, each invocation but the last storing one
\* level, and it returns without an error leaving the levels 1..h, also when
\* a frontier is empty.
C11_Levels ==
    /\ pc = "expand"
        => /\ arg_num_levels \in 0..(h - 1)
           /\ arg_i = h - arg_num_levels + 1
           /\ DOMAIN neighbors = 1..(arg_i - 1)
    /\ (pc = "hop" \/ (pc = "raised" /\ raised # "NetworkXError"))
        => /\ arg_num_levels = 0
           /\ arg_i = h + 1
           /\ DOMAIN neighbors = 1..h
           /\ neighbors = BuildNeighbors(graph, fn, node, h)
    /\ pc = "raised" => DOMAIN neighbors \in {{}, 1..h}

C11_Decreases ==
    (pc = "expand" /\ pc' = "expand")
        => /\ arg_num_levels > 0
           /\ arg_num_levels' = arg_num_levels - 1
           /\ DOMAIN neighbors' = DOMAIN neighbors \cup {arg_i}

C11_RecursionTerminates == []C11_Levels /\ [][C11_Decreases]_vars

C11_Witness ==
    /\ pc = "hop"
    /\ fn = "accessibility"
    /\ h = MaxH
    /\ arg_num_levels = 0
    /\ neighbors[1] # {}
    /\ neighbors[h] = {}


\* The edge of the graph a stored pair stands for: in an undirected graph
\* (u, v) and (v, u) are one edge.
GraphEdge(G, e) == IF is_directed(G) THEN {<<e[1], e[2]>>} ELSE {e[1], e[2]}

\* C12 (as claimed): every frontier holds each edge of the graph once, so the
\* unweighted total of a hop is the number of distinct graph edges reached.
C12_EdgeOncePerFrontier ==
    /\ (fn \in AccFunctions /\ pc = "hop")
        => \A k \in 1..h : \A e, d \in neighbors[k] :
              GraphEdge(graph, e) = GraphEdge(graph, d) => e = d
    /\ (Scored /\ ~weighted)
        => weights = Cardinality({GraphEdge(graph, e) : e \in neighbors[j]})

\* C13 (as claimed): the weighted total of a hop is the sum of the weights of
\* the frontier's edges (here in halves, so twice the total), and it equals
\* the sum of mass(n) over the reached nodes: the p(n) add up to 1.
C13_TotalIsWeightSum ==
    (Scored /\ weighted)
    => LET F == neighbors[j]
           R == Reached(fn, F)
       IN /\ 2 * weights = SumOver(F, [e \in F |-> get_weight(graph, e[1], e[2])])
          /\ SumOver(R, [n \in R |-> Mass(graph, fn, weighted, F, n)]) = 2 * weights

\* C14: in unweighted mode, at every scored hop with a non-empty frontier F,
\* the edges consulted for a reached node are edges of F, each reached node
\* has 1 <= mass <= |F|, the masses add up to |F|, and so every p(n) is in
\* (0, 1], none is skipped, and the p(n) add up to 1.
C14_UnweightedDistribution ==
    (Scored /\ ~weighted /\ neighbors[j] # {})
    => LET F == neighbors[j]
           R == Reached(fn, F)
           size == Cardinality(F)
       IN /\ weights = size
          /\ \A n \in R :
                /\ Consulted(graph, fn, F, n) \subseteq F
                /\ Mass(graph, fn, weighted, F, n) >= 1
                /\ Mass(graph, fn, weighted, F, n) <= size
                /\ P_ij(graph, fn, weighted, F, n) # Zero
                /\ LET p == P_ij(graph, fn, weighted, F, n) IN p[1] <= p[2]
          /\ SumOver(R, [n \in R |-> Mass(graph, fn, weighted, F, n)]) = size
          /\ BagCardinality(acc) = Cardinality({n \in R : Mass(graph, fn, weighted, F, n) # size})

C14_Witness ==
    /\ Scored
    /\ ~weighted
    /\ j = 2
    /\ Cardinality(neighbors[2]) >= 3
    /\ \E n \in Reached(fn, neighbors[2]) : Mass(graph, fn, weighted, neighbors[2], n) >= 2

====
